---- MODULE Spec2Model ----
(***************************************************************************)
(* A model of main.py: the export-to-BigQuery script.  Text is a sequence  *)
(* of one-character strings, a number is a decimal fraction num / 10^scale *)
(* in lowest form (or the missing marker NaN), the remote table is a bag   *)
(* of rows.                                                                *)
(***************************************************************************)
EXTENDS Integers, Sequences, FiniteSets, Bags, TLC

VARIABLES
    currency_series,    \* the argument of currency_to_float
    currency_result,    \* what currency_to_float returned for it
    summary_row,        \* the argument of extract_account_name
    account_name,       \* what extract_account_name returned for it
    source_file,        \* the file given to process_csv_file on its own
    record_set,         \* the Normalized Record Set built from it
    table,              \* the remote table: a bag of rows
    directory,          \* the files CSV_DIRECTORY holds
    clock,              \* the day datetime.now().date() gives
    run,                \* number of runs of the script started so far
    pc,                 \* where the current run of the script is
    listing,            \* os.listdir(CSV_DIRECTORY) of the current run
    idx,                \* position of the for loop in listing
    error,              \* the exception that ended the run ("" if none)
    initial_count,      \* remove_duplicates: local initial_count
    final_count,        \* remove_duplicates: local final_count
    duplicates_removed, \* remove_duplicates: the number printed
    runlog,             \* what the current run has done so far
    prevrun,            \* how the run before it ended
    dedup               \* what happened around the current remove_duplicates

pure == <<currency_series, currency_result, summary_row, account_name,
          source_file, record_set>>
locals == <<initial_count, final_count, duplicates_removed>>
vars == <<pure, directory, table, clock, run, pc, listing, idx, error, locals,
          runlog, prevrun, dedup>>

-----------------------------------------------------------------------------
(* Bounds of the model *)

MaxLen == 4        \* length of a currency text drawn in SpecCurrency
MaxLine == 4       \* length of a summary line (terminator apart) in SpecAccount
MaxLines == 6      \* lines after line 1 of a file drawn in SpecExtract
MaxRuns == 2       \* runs of the script, one after the other
MaxFiles == 2      \* entries of the directory
MaxDay == 2        \* days the clock passes through
MaxCopies == 2     \* copies of a row in the table SpecTable starts from
MaxWrites == 2     \* batch loads of other runs during SpecTable
MaxCalls == 2      \* calls of remove_duplicates in SpecTable

-----------------------------------------------------------------------------
(* Text and numbers *)

Quote == "\""
Comma == ","
Dot == "."
Minus == "-"
Pound == "£"
Newline == "\n"

Digits == {"0", "1", "2", "3", "4", "5", "6", "7", "8", "9"}

DigitVal(c) ==
    CASE c = "0" -> 0 [] c = "1" -> 1 [] c = "2" -> 2 [] c = "3" -> 3
      [] c = "4" -> 4 [] c = "5" -> 5 [] c = "6" -> 6 [] c = "7" -> 7
      [] c = "8" -> 8 [] c = "9" -> 9

RECURSIVE Pow10(_)
Pow10(k) == IF k = 0 THEN 1 ELSE 10 * Pow10(k - 1)

\* The missing marker of pandas (NaN, NULL once loaded).
NaN == [nan |-> TRUE, num |-> 0, scale |-> 0]

\* The float num / 10^scale, in lowest form so that equal floats are equal values.
RECURSIVE Float(_, _)
Float(n, k) ==
    IF k > 0 /\ n % 10 = 0 THEN Float(n \div 10, k - 1)
    ELSE [nan |-> FALSE, num |-> n, scale |-> k]

\* All sequences over a set up to a length.
RECURSIVE SeqsUpTo(_, _)
SeqsUpTo(alphabet, n) ==
    IF n = 0 THEN {<<>>}
    ELSE LET shorter == SeqsUpTo(alphabet, n - 1)
         IN shorter \cup {Append(t, c) : t \in shorter, c \in alphabet}

\* The value of a text of digits read as a decimal numeral (0 for the empty text).
RECURSIVE DigitsValue(_)
DigitsValue(t) ==
    IF t = <<>> THEN 0
    ELSE 10 * DigitsValue(SubSeq(t, 1, Len(t) - 1)) + DigitVal(t[Len(t)])

IsDigit(c) == c \in Digits

\* pandas.to_numeric(..., errors='coerce') on one text: an optional sign, digits
\* with at most one decimal point and at least one digit; anything else is NaN.
to_numeric(text) ==
    LET signed == Len(text) > 0 /\ text[1] \in {Minus, "+"}
        body == IF signed THEN SubSeq(text, 2, Len(text)) ELSE text
        dots == {i \in 1..Len(body) : body[i] = Dot}
        wellFormed == /\ \A i \in 1..Len(body) : IsDigit(body[i]) \/ body[i] = Dot
                      /\ Cardinality(dots) <= 1
                      /\ \E i \in 1..Len(body) : IsDigit(body[i])
        point == IF dots = {} THEN Len(body) + 1 ELSE CHOOSE i \in dots : TRUE
        whole == SubSeq(body, 1, point - 1)
        frac == SubSeq(body, point + 1, Len(body))
        magnitude == DigitsValue(whole) * Pow10(Len(frac)) + DigitsValue(frac)
    IN IF ~wellFormed THEN NaN
       ELSE Float(IF signed /\ text[1] = Minus THEN 0 - magnitude ELSE magnitude,
                  Len(frac))

-----------------------------------------------------------------------------
(* currency_to_float *)

\* A cell of an object column: a text, or missing (an empty CSV cell).
Text(t) == [na |-> FALSE, text |-> t]
Missing == [na |-> TRUE, text |-> <<>>]

\* A variant of the regular expression that lets the sign through: [^0-9.-]
IsStrippedKeepingSign(c) == ~(IsDigit(c) \/ c = Dot \/ c = Minus)

\* The regular expression of line 52: the characters str.replace deletes.
IsStripped(c) == ~(IsDigit(c) \/ c = Dot)

\* Series.str.replace('[^0-9.]', '', regex=True) on one cell.
str_replace(cell) ==
    IF cell.na THEN cell
    ELSE Text(SelectSeq(cell.text, LAMBDA c : ~IsStripped(c)))

\* pd.to_numeric(cleaned_series, errors='coerce') on one cell.
cell_to_numeric(cell) == IF cell.na THEN NaN ELSE to_numeric(cell.text)

currency_to_float(series) ==
    IF series.dtype = "float64" THEN series
    ELSE IF series.dtype = "object"
         THEN [dtype |-> "float64",
               vals |-> [i \in 1..Len(series.vals) |->
                            cell_to_numeric(str_replace(series.vals[i]))]]
         ELSE series

-----------------------------------------------------------------------------
(* extract_account_name *)

\* str.split(sep): the fields between the separators, at least one field.
RECURSIVE split(_, _)
split(text, sep) ==
    LET seps == {i \in 1..Len(text) : text[i] = sep}
    IN IF seps = {} THEN <<text>>
       ELSE LET i == CHOOSE j \in seps : \A k \in seps : j <= k
            IN <<SubSeq(text, 1, i - 1)>> \o split(SubSeq(text, i + 1, Len(text)), sep)

\* str.strip(ch): every leading and trailing ch removed.
RECURSIVE strip(_, _)
strip(text, ch) ==
    IF text = <<>> THEN text
    ELSE IF text[1] = ch THEN strip(SubSeq(text, 2, Len(text)), ch)
    ELSE IF text[Len(text)] = ch THEN strip(SubSeq(text, 1, Len(text) - 1), ch)
    ELSE text

\* summary_row.split(',')[1].strip('"'); IndexError with fewer than two fields.
extract_account_name(row) ==
    LET fields == split(row, Comma)
    IN IF Len(fields) < 2 THEN [raised |-> "IndexError", value |-> <<>>]
       ELSE [raised |-> "", value |-> strip(fields[2], Quote)]

-----------------------------------------------------------------------------
(* Source files *)

skiprows == 4

\* One line of a file after line 1, as read_csv sees it: blank, or the six
\* cells it holds by position.  A "columns" line names the six columns; any
\* other non-blank line is data (boilerplate text is a line with one cell).
Line(kind, date, ttype, desc, out, in, bal) ==
    [kind |-> kind, date |-> date, transaction_type |-> ttype,
     description |-> desc, paid_out |-> out, paid_in |-> in, balance |-> bal]

Blank == Line("blank", Missing, Missing, Missing, Missing, Missing, Missing)
Columns ==
    Line("columns", Text(<<"D", "a", "t", "e">>), Text(<<"T">>), Text(<<"D">>),
         Text(<<"P", "o">>), Text(<<"P", "i">>), Text(<<"B">>))
Boilerplate ==
    Line("text", Text(<<"A", "v", "a", "i", "l">>), Text(<<Pound, "9">>),
         Missing, Missing, Missing, Missing)

\* A file: its name, its first line as readline() returns it (terminator
\* included; empty for an empty file), and the lines after it.
File(name, line1, rest) == [name |-> name, line1 |-> line1, rest |-> rest]

\* str.endswith(suffix)
endswith(text, suffix) ==
    /\ Len(text) >= Len(suffix)
    /\ SubSeq(text, Len(text) - Len(suffix) + 1, Len(text)) = suffix

CsvSuffix == <<".", "c", "s", "v">>

-----------------------------------------------------------------------------
(* Dates: pd.to_datetime(..., format='%d %b %Y') *)

MonthNames ==
    <<<<"J", "a", "n">>, <<"F", "e", "b">>, <<"M", "a", "r">>, <<"A", "p", "r">>,
      <<"M", "a", "y">>, <<"J", "u", "n">>, <<"J", "u", "l">>, <<"A", "u", "g">>,
      <<"S", "e", "p">>, <<"O", "c", "t">>, <<"N", "o", "v">>, <<"D", "e", "c">>>>

IsLeap(y) == (y % 4 = 0 /\ y % 100 # 0) \/ y % 400 = 0

DaysIn(y, m) ==
    IF m = 2 THEN (IF IsLeap(y) THEN 29 ELSE 28)
    ELSE IF m \in {4, 6, 9, 11} THEN 30 ELSE 31

NaT == [nat |-> TRUE, year |-> 0, month |-> 0, day |-> 0]

AllDigits(t) == \A i \in 1..Len(t) : IsDigit(t[i])

\* One cell under the format: day, abbreviated month name, four-digit year,
\* separated by single spaces.  A missing cell is NaT; a cell that does not
\* match raises ValueError.
strptime(cell) ==
    IF cell.na THEN [raised |-> "", value |-> NaT]
    ELSE LET f == split(cell.text, " ")
             ok == /\ Len(f) = 3
                   /\ Len(f[1]) \in {1, 2} /\ AllDigits(f[1])
                   /\ \E m \in 1..12 : MonthNames[m] = f[2]
                   /\ Len(f[3]) = 4 /\ AllDigits(f[3])
                   /\ LET m == CHOOSE k \in 1..12 : MonthNames[k] = f[2]
                      IN DigitsValue(f[1]) \in 1..DaysIn(DigitsValue(f[3]), m)
         IN IF ~ok THEN [raised |-> "ValueError", value |-> NaT]
            ELSE [raised |-> "",
                  value |-> [nat |-> FALSE, year |-> DigitsValue(f[3]),
                             month |-> CHOOSE k \in 1..12 : MonthNames[k] = f[2],
                             day |-> DigitsValue(f[1])]]

-----------------------------------------------------------------------------
(* pd.read_csv(file_path, skiprows=4) *)

\* The lines of the file after its first n lines (line 1 is not in rest).
LinesAfter(file, n) ==
    IF file.line1 = <<>> THEN <<>>
    ELSE IF n = 0 THEN file.rest
    ELSE SubSeq(file.rest, n, Len(file.rest))

\* The dtype read_csv gives a column from its cells: int64 when every cell is
\* an integer numeral, float64 when every cell is a numeral or empty, object
\* otherwise and when there is no cell.
infer_column(cells) ==
    LET n == Len(cells)
        numeric(c) == c.na \/ ~to_numeric(c.text).nan
        integral(c) == ~c.na /\ \A i \in 1..Len(c.text) : c.text[i] # Dot
    IN IF n = 0 \/ \E i \in 1..n : ~numeric(cells[i])
       THEN [dtype |-> "object", vals |-> cells]
       ELSE IF \A i \in 1..n : integral(cells[i])
       THEN [dtype |-> "int64", vals |-> [i \in 1..n |-> to_numeric(cells[i].text)]]
       ELSE [dtype |-> "float64", vals |-> [i \in 1..n |-> cell_to_numeric(cells[i])]]

\* A variant of read_csv that takes no line for the column names (header=None
\* with the names given): every line left is a row.
read_csv_without_header(file) ==
    LET lines == SelectSeq(LinesAfter(file, skiprows), LAMBDA l : l.kind # "blank")
    IN IF lines = <<>> THEN [raised |-> "EmptyDataError", named |-> FALSE, rows |-> <<>>]
       ELSE [raised |-> "", named |-> lines[1].kind = "columns", rows |-> lines]

\* The frame read_csv returns: blank lines dropped, the first line left names
\* the columns, the others are the rows.  EmptyDataError when no line is left.
read_csv(file) ==
    LET lines == SelectSeq(LinesAfter(file, skiprows), LAMBDA l : l.kind # "blank")
    IN IF lines = <<>> THEN [raised |-> "EmptyDataError", named |-> FALSE, rows |-> <<>>]
       ELSE [raised |-> "", named |-> lines[1].kind = "columns", rows |-> Tail(lines)]

-----------------------------------------------------------------------------
(* process_csv_file, lines 64-82: the Normalized Record Set of a file *)

Column(rows, name) == [i \in 1..Len(rows) |-> rows[i][name]]

process_csv_file(file, today) ==
    LET name == extract_account_name(file.line1)
        data == read_csv(file)
        n == Len(data.rows)
        paid_out == currency_to_float(infer_column(Column(data.rows, "paid_out")))
        paid_in == currency_to_float(infer_column(Column(data.rows, "paid_in")))
        balance == currency_to_float(infer_column(Column(data.rows, "balance")))
        dates == [i \in 1..n |-> strptime(data.rows[i].date)]
    IN IF name.raised # "" THEN [raised |-> name.raised, rows |-> <<>>]
       ELSE IF data.raised # "" THEN [raised |-> data.raised, rows |-> <<>>]
       ELSE IF ~data.named THEN [raised |-> "KeyError", rows |-> <<>>]
       ELSE IF \E i \in 1..n : dates[i].raised # ""
       THEN [raised |-> "ValueError", rows |-> <<>>]
       ELSE [raised |-> "",
             rows |-> [i \in 1..n |->
                 [account_name |-> name.value,
                  date |-> dates[i].value,
                  transaction_type |-> data.rows[i].transaction_type,
                  description |-> data.rows[i].description,
                  paid_out |-> paid_out.vals[i],
                  paid_in |-> paid_in.vals[i],
                  balance |-> balance.vals[i],
                  date_uploaded |-> today]]]

-----------------------------------------------------------------------------
(* The remote table *)

RECURSIVE SeqToBag(_)
SeqToBag(rows) ==
    IF rows = <<>> THEN EmptyBag
    ELSE SetToBag({Head(rows)}) (+) SeqToBag(Tail(rows))

\* A variant of the job configuration that replaces the table's rows.
job_config_truncating == [write_disposition |-> "WRITE_TRUNCATE"]

\* LoadJobConfig(schema=schema, write_disposition=WriteDisposition.WRITE_APPEND)
job_config == [write_disposition |-> "WRITE_APPEND"]

\* The table after a load job of rows that completed, under job_config.
load_table_from_dataframe(tbl, rows) ==
    IF job_config.write_disposition = "WRITE_APPEND" THEN tbl (+) SeqToBag(rows)
    ELSE SeqToBag(rows)

\* SELECT COUNT(*) as total FROM the table
get_table_row_count(tbl) == BagCardinality(tbl)

\* A variant of the rewrite that drops one copy of every row held more than once.
select_dropping_one_copy(tbl) ==
    [r \in DOMAIN tbl |-> IF tbl[r] > 1 THEN tbl[r] - 1 ELSE 1]

\* A variant of the rewrite without DISTINCT: SELECT * FROM the table
select_all(tbl) == tbl

\* CREATE OR REPLACE TABLE the table AS SELECT DISTINCT * FROM the table
select_distinct(tbl) == SetToBag(BagToSet(tbl))

-----------------------------------------------------------------------------
(* The files a directory may hold *)

Summary3 ==   \* "S","My","G" and the line terminator
    <<Quote, "S", Quote, Comma, Quote, "M", "y", Quote, Comma, Quote, "G", Quote,
      Newline>>
Summary2 ==   \* "A","My" and the line terminator
    <<Quote, "A", Quote, Comma, Quote, "M", "y", Quote, Newline>>
Summary1 ==   \* Statement and the line terminator: no comma
    <<"S", "t", Newline>>

RowRent ==    \* 05 Jan 2024,DD,rent,£50.00,,"£1,234.56"
    Line("row", Text(<<"0", "5", " ", "J", "a", "n", " ", "2", "0", "2", "4">>),
         Text(<<"D", "D">>), Text(<<"r", "e", "n", "t">>),
         Text(<<Pound, "5", "0", Dot, "0", "0">>), Missing,
         Text(<<Pound, "1", Comma, "2", "3", "4", Dot, "5", "6">>))
RowPay ==     \* 06 Jan 2024,BP,pay,,£12.34,"£1,246.90"
    Line("row", Text(<<"0", "6", " ", "J", "a", "n", " ", "2", "0", "2", "4">>),
         Text(<<"B", "P">>), Text(<<"p", "a", "y">>), Missing,
         Text(<<Pound, "1", "2", Dot, "3", "4">>),
         Text(<<Pound, "1", Comma, "2", "4", "6", Dot, "9", "0">>))
RowIso ==     \* 2024-01-07,BP,pay,,£1.00,£2.00
    Line("row", Text(<<"2", "0", "2", "4", Minus, "0", "1", Minus, "0", "7">>),
         Text(<<"B", "P">>), Text(<<"p", "a", "y">>), Missing,
         Text(<<Pound, "1", Dot, "0", "0">>), Text(<<Pound, "2", Dot, "0", "0">>))

Preamble == <<Boilerplate, Boilerplate, Blank>>

StatementCsv == File(<<"s">> \o CsvSuffix, Summary3, Preamble \o <<Columns, RowRent, RowPay>>)
JointCsv == File(<<"j">> \o CsvSuffix, Summary2, Preamble \o <<Columns, RowPay>>)
EmptyCsv == File(<<"e">> \o CsvSuffix, Summary3, Preamble \o <<Columns>>)
NoSummaryCsv == File(<<"n">> \o CsvSuffix, Summary1, Preamble \o <<Columns, RowRent>>)
BadDateCsv == File(<<"b">> \o CsvSuffix, Summary3, Preamble \o <<Columns, RowRent, RowIso>>)
NotesTxt == File(<<"n", ".", "t", "x", "t">>, <<"h", "i">>, <<>>)

Catalogue == {StatementCsv, JointCsv, EmptyCsv, NoSummaryCsv, BadDateCsv, NotesTxt}

Range(f) == {f[i] : i \in DOMAIN f}

\* The directories of the model: up to MaxFiles files of the catalogue.
Directories == {d \in SUBSET Catalogue : Cardinality(d) <= MaxFiles}

\* What os.listdir may return: the entries of the directory, in any order.
Listings(dir) ==
    {l \in [1..Cardinality(dir) -> dir] : \A i, j \in DOMAIN l : l[i] = l[j] => i = j}

-----------------------------------------------------------------------------
(* Values the variables hold before they are first set *)

NoSeries == [dtype |-> "object", vals |-> <<>>]
NoResult == [returned |-> FALSE, series |-> NoSeries]
NoName == [returned |-> FALSE, raised |-> "", value |-> <<>>]
NoFile == File(<<>>, <<>>, <<>>)
NoRecordSet == [returned |-> FALSE, raised |-> "", rows |-> <<>>]
NoRun == [ended |-> "none", table |-> EmptyBag, days |-> {}]
NewLog == [start |-> EmptyBag, calls |-> <<>>, dedups |-> 0]
NoDedup ==
    [atCall |-> EmptyBag, removed |-> 0, absorbed |-> 0, dirty |-> FALSE,
     rewroteDirty |-> FALSE, calls |-> 0, writes |-> 0, lastFinal |-> 0]

InitPure ==
    /\ currency_series = NoSeries /\ currency_result = NoResult
    /\ summary_row = <<>> /\ account_name = NoName
    /\ source_file = NoFile /\ record_set = NoRecordSet

InitScript ==
    /\ clock = 1 /\ run = 0 /\ pc = "idle" /\ listing = <<>> /\ idx = 1
    /\ error = "" /\ initial_count = 0 /\ final_count = 0
    /\ duplicates_removed = 0
    /\ runlog = NewLog /\ prevrun = NoRun /\ dedup = NoDedup

-----------------------------------------------------------------------------
(* The script: lines 118-126 *)

\* A run starts: the interpreter reaches line 119 and lists the directory.
StartRun ==
    /\ pc \in {"idle", "done", "aborted"}
    /\ run < MaxRuns
    /\ \E files \in Listings(directory) : listing' = files
    /\ run' = run + 1
    /\ idx' = 1
    /\ pc' = "loop"
    /\ error' = ""
    /\ initial_count' = 0 /\ final_count' = 0 /\ duplicates_removed' = 0
    /\ prevrun' = IF run = 0 THEN NoRun
                  ELSE [ended |-> pc, table |-> table,
                        days |-> {runlog.calls[k].day : k \in DOMAIN runlog.calls}]
    /\ runlog' = [start |-> table, calls |-> <<>>, dedups |-> 0]
    /\ dedup' = NoDedup
    /\ UNCHANGED <<pure, directory, table, clock>>

\* A variant of line 120 that takes every entry for a source file.
IsAnyEntry(file) == TRUE

\* Line 120: whether the entry ends in .csv.
IsCsv(file) == endswith(file.name, CsvSuffix)

\* Line 120: the entry does not end in .csv and is passed over.
SkipEntry ==
    /\ pc = "loop" /\ idx <= Len(listing)
    /\ ~IsCsv(listing[idx])
    /\ idx' = idx + 1
    /\ UNCHANGED <<pure, directory, table, clock, run, pc, listing, error, locals,
                   runlog, prevrun, dedup>>

Call(raised, rows, applied) ==
    [i |-> idx, day |-> clock, raised |-> raised, rows |-> rows, applied |-> applied]

\* A variant of line 121 in which the exception is caught and the loop goes on.
ExtractionFailsAndIsCaught ==
    /\ pc = "loop" /\ idx <= Len(listing)
    /\ IsCsv(listing[idx])
    /\ LET data == process_csv_file(listing[idx], clock)
       IN /\ data.raised # ""
          /\ runlog' = [runlog EXCEPT !.calls = Append(@, Call(data.raised, <<>>, FALSE))]
    /\ idx' = idx + 1
    /\ UNCHANGED <<pure, directory, table, clock, run, pc, listing, error, locals,
                   prevrun, dedup>>

\* A variant of line 121 in which remove_duplicates runs in a finally clause.
ExtractionFailsThenDeduplicates ==
    /\ pc = "loop" /\ idx <= Len(listing)
    /\ IsCsv(listing[idx])
    /\ LET data == process_csv_file(listing[idx], clock)
       IN /\ data.raised # ""
          /\ error' = data.raised
          /\ runlog' = [runlog EXCEPT !.calls = Append(@, Call(data.raised, <<>>, FALSE)),
                                      !.dedups = @ + 1]
    /\ pc' = "count"
    /\ UNCHANGED <<pure, directory, table, clock, run, listing, idx, locals, prevrun, dedup>>

\* Line 121, process_csv_file raising before the load (lines 64-82): the
\* exception is not caught and ends the run.
ExtractionFails ==
    /\ pc = "loop" /\ idx <= Len(listing)
    /\ IsCsv(listing[idx])
    /\ LET data == process_csv_file(listing[idx], clock)
       IN /\ data.raised # ""
          /\ error' = data.raised
          /\ runlog' = [runlog EXCEPT !.calls = Append(@, Call(data.raised, <<>>, FALSE))]
    /\ pc' = "aborted"
    /\ UNCHANGED <<pure, directory, table, clock, run, listing, idx, locals, prevrun, dedup>>

\* Line 121, process_csv_file to its end: the record set is loaded (lines 85-86).
LoadSucceeds ==
    /\ pc = "loop" /\ idx <= Len(listing)
    /\ IsCsv(listing[idx])
    /\ LET data == process_csv_file(listing[idx], clock)
       IN /\ data.raised = ""
          /\ table' = load_table_from_dataframe(table, data.rows)
          /\ runlog' = [runlog EXCEPT !.calls = Append(@, Call("", data.rows, TRUE))]
    /\ idx' = idx + 1
    /\ UNCHANGED <<pure, directory, clock, run, pc, listing, error, locals, prevrun, dedup>>

\* Lines 85-86 raising: the load job failed (nothing is appended), or the job
\* completed remotely while waiting for it failed (the rows are appended).
LoadFails ==
    /\ pc = "loop" /\ idx <= Len(listing)
    /\ IsCsv(listing[idx])
    /\ LET data == process_csv_file(listing[idx], clock)
       IN /\ data.raised = ""
          /\ \E applied \in BOOLEAN :
                /\ table' = IF applied THEN load_table_from_dataframe(table, data.rows)
                            ELSE table
                /\ runlog' = [runlog EXCEPT
                                 !.calls = Append(@, Call("GoogleAPIError", data.rows, applied))]
    /\ error' = "GoogleAPIError"
    /\ pc' = "aborted"
    /\ UNCHANGED <<pure, directory, clock, run, listing, idx, locals, prevrun, dedup>>

\* Lines 123-126: the loop is over and remove_duplicates is called.
CallRemoveDuplicates ==
    /\ pc = "loop" /\ idx > Len(listing)
    /\ pc' = "count"
    /\ runlog' = [runlog EXCEPT !.dedups = @ + 1]
    /\ UNCHANGED <<pure, directory, table, clock, run, listing, idx, error, locals, prevrun, dedup>>

\* Line 99: initial_count = get_table_row_count()
CountBefore ==
    /\ pc = "count"
    /\ initial_count' = get_table_row_count(table)
    /\ pc' = "rewrite"
    /\ dedup' = [dedup EXCEPT !.atCall = table, !.absorbed = 0,
                              !.calls = @ + 1, !.lastFinal = final_count]
    /\ UNCHANGED <<pure, directory, table, clock, run, listing, idx, error, final_count,
                   duplicates_removed, runlog, prevrun>>

\* Lines 102-108: the table is replaced by its distinct rows.
Rewrite ==
    /\ pc = "rewrite"
    /\ table' = select_distinct(table)
    /\ pc' = "recount"
    /\ dedup' = [dedup EXCEPT
                    !.removed = BagCardinality(table) - BagCardinality(table'),
                    !.rewroteDirty = dedup.dirty, !.dirty = FALSE]
    /\ UNCHANGED <<pure, directory, clock, run, listing, idx, error, locals, runlog, prevrun>>

\* Lines 111-115: final_count, duplicates_removed and the message.
CountAfter ==
    /\ pc = "recount"
    /\ final_count' = get_table_row_count(table)
    /\ duplicates_removed' = initial_count - final_count'
    /\ pc' = "done"
    /\ UNCHANGED <<pure, directory, table, clock, run, listing, idx, error, initial_count,
                   runlog, prevrun, dedup>>

\* A query of remove_duplicates raising: the run ends there.  A failed rewrite
\* leaves the table as it was.
QueryFails ==
    /\ pc \in {"count", "rewrite", "recount"}
    /\ error' = "GoogleAPIError"
    /\ pc' = "aborted"
    /\ UNCHANGED <<pure, directory, table, clock, run, listing, idx, locals, runlog, prevrun, dedup>>

\* Midnight passes.  The script reads the clock in the loop only, so midnight
\* during a query of remove_duplicates is midnight right after it.
Tick ==
    /\ clock < MaxDay
    /\ pc \in {"idle", "loop", "done", "aborted"}
    /\ clock' = clock + 1
    /\ UNCHANGED <<pure, directory, table, run, pc, listing, idx, error, locals, runlog,
                   prevrun, dedup>>

Init == InitPure /\ InitScript /\ table = EmptyBag /\ directory \in Directories

Next ==
    \/ StartRun
    \/ SkipEntry
    \/ ExtractionFails
    \/ LoadSucceeds
    \/ LoadFails
    \/ CallRemoveDuplicates
    \/ CountBefore
    \/ Rewrite
    \/ CountAfter
    \/ QueryFails
    \/ Tick

Spec == Init /\ [][Next]_vars

-----------------------------------------------------------------------------
(* currency_to_float on its own *)

CurrencyAlphabet == {Pound, Minus, Comma, Dot, "0", "1", "2"}

Pounds1234_56 == <<Pound, "1", Comma, "2", "3", "4", Dot, "5", "6">>
MinusPounds12_34 == <<Minus, Pound, "1", "2", Dot, "3", "4">>

CurrencyInputs ==
    {[dtype |-> "object", vals |-> <<Text(t)>>] : t \in SeqsUpTo(CurrencyAlphabet, MaxLen)}
    \cup {[dtype |-> "object", vals |-> v] :
            v \in {<<Missing>>, <<Text(Pounds1234_56)>>, <<Text(MinusPounds12_34)>>,
                   <<Text(MinusPounds12_34), Missing, Text(Pounds1234_56)>>, <<>>}}
    \cup {[dtype |-> "float64", vals |-> v] :
            v \in {<<Float(0 - 1234, 2)>>, <<NaN, Float(5, 1)>>, <<NaN>>}}
    \cup {[dtype |-> "int64", vals |-> v] :
            v \in {<<Float(50, 0)>>, <<Float(0 - 7, 0), Float(3, 0)>>}}

ApplyCurrencyToFloat ==
    /\ ~currency_result.returned
    /\ currency_result' = [returned |-> TRUE, series |-> currency_to_float(currency_series)]
    /\ UNCHANGED <<currency_series, summary_row, account_name, source_file, record_set,
                   directory, table, clock, run, pc, listing, idx, error, locals,
                   runlog, prevrun, dedup>>

InitCurrency ==
    /\ currency_series \in CurrencyInputs /\ currency_result = NoResult
    /\ summary_row = <<>> /\ account_name = NoName
    /\ source_file = NoFile /\ record_set = NoRecordSet
    /\ InitScript /\ table = EmptyBag /\ directory = {}

NextCurrency == ApplyCurrencyToFloat

SpecCurrency == InitCurrency /\ [][NextCurrency]_vars

-----------------------------------------------------------------------------
(* extract_account_name on its own *)

SummaryAlphabet == {Quote, Comma, "a", " "}

\* What readline() may return for line 1 of a file that has one: the line and
\* its terminator, or the line alone when the file ends without a terminator.
SummaryRows ==
    LET contents == SeqsUpTo(SummaryAlphabet, MaxLine)
                        \cup {SubSeq(Summary3, 1, Len(Summary3) - 1),
                              SubSeq(Summary2, 1, Len(Summary2) - 1)}
    IN {c \o <<Newline>> : c \in contents} \cup (contents \ {<<>>})

ExtractAccountName ==
    /\ ~account_name.returned
    /\ account_name' = LET r == extract_account_name(summary_row)
                       IN [returned |-> TRUE, raised |-> r.raised, value |-> r.value]
    /\ UNCHANGED <<currency_series, currency_result, summary_row, source_file,
                   record_set, directory, table, clock, run, pc, listing, idx,
                   error, locals, runlog, prevrun, dedup>>

InitAccount ==
    /\ currency_series = NoSeries /\ currency_result = NoResult
    /\ summary_row \in SummaryRows /\ account_name = NoName
    /\ source_file = NoFile /\ record_set = NoRecordSet
    /\ InitScript /\ table = EmptyBag /\ directory = {}

NextAccount == ExtractAccountName

SpecAccount == InitAccount /\ [][NextAccount]_vars

-----------------------------------------------------------------------------
(* Lines 64-82 of process_csv_file on its own *)

LineAlphabet == {Blank, Columns, Boilerplate, RowRent}

SourceFiles ==
    {File(<<"x">> \o CsvSuffix, l1, rest) :
        l1 \in {Summary3, Summary2, Summary1},
        rest \in SeqsUpTo(LineAlphabet, MaxLines)}
    \cup {File(<<"x">> \o CsvSuffix, <<>>, <<>>)}

BuildRecordSet ==
    /\ ~record_set.returned
    /\ record_set' = LET r == process_csv_file(source_file, clock)
                     IN [returned |-> TRUE, raised |-> r.raised, rows |-> r.rows]
    /\ UNCHANGED <<currency_series, currency_result, summary_row, account_name,
                   source_file, directory, table, clock, run, pc, listing, idx,
                   error, locals, runlog, prevrun, dedup>>

InitExtract ==
    /\ currency_series = NoSeries /\ currency_result = NoResult
    /\ summary_row = <<>> /\ account_name = NoName
    /\ source_file \in SourceFiles /\ record_set = NoRecordSet
    /\ InitScript /\ table = EmptyBag /\ directory = {}

NextExtract == BuildRecordSet

SpecExtract == InitExtract /\ [][NextExtract]_vars

-----------------------------------------------------------------------------
(* remove_duplicates while other runs of the script load into the table *)

SampleRows ==
    Range(process_csv_file(StatementCsv, 1).rows)
        \cup Range(process_csv_file(JointCsv, 1).rows)

\* The tables with up to MaxCopies copies of each sample row.
StartTables ==
    {[r \in {x \in SampleRows : f[x] > 0} |-> f[r]] : f \in [SampleRows -> 0..MaxCopies]}

\* Lines 85-86 of another run: its record set is appended.
ConcurrentLoad ==
    /\ pc \in {"count", "rewrite", "recount", "done"}
    /\ dedup.writes < MaxWrites
    /\ \E file \in {StatementCsv, JointCsv} :
          LET rows == process_csv_file(file, clock).rows
          IN /\ table' = load_table_from_dataframe(table, rows)
             /\ dedup' = [dedup EXCEPT
                             !.writes = @ + 1, !.dirty = TRUE,
                             !.absorbed = IF pc \in {"rewrite", "recount"}
                                          THEN @ + Len(rows) ELSE @]
    /\ UNCHANGED <<pure, directory, clock, run, pc, listing, idx, error, locals,
                   runlog, prevrun>>

\* remove_duplicates is called once more (a further run that uploads nothing).
CallAgain ==
    /\ pc = "done"
    /\ dedup.calls < MaxCalls
    /\ pc' = "count"
    /\ UNCHANGED <<pure, directory, table, clock, run, listing, idx, error, locals,
                   runlog, prevrun, dedup>>

InitTable ==
    /\ InitPure
    /\ table \in StartTables /\ directory = {}
    /\ clock = 1 /\ run = 1 /\ pc = "count" /\ listing = <<>> /\ idx = 1
    /\ error = "" /\ initial_count = 0 /\ final_count = 0
    /\ duplicates_removed = 0
    /\ runlog = [NewLog EXCEPT !.start = table, !.dedups = 1]
    /\ prevrun = NoRun /\ dedup = NoDedup

NextTable ==
    \/ CountBefore
    \/ Rewrite
    \/ CountAfter
    \/ CallAgain
    \/ ConcurrentLoad

SpecTable == InitTable /\ [][NextTable]_vars

-----------------------------------------------------------------------------
(* Properties of currency_to_float (SpecCurrency) *)

DigitsAfter(t, i) == Cardinality({j \in (i + 1)..Len(t) : IsDigit(t[j])})

\* The digits of t read as one numeral, whatever stands between them.
RECURSIVE DigitsNumeral(_, _)
DigitsNumeral(t, i) ==
    IF i > Len(t) THEN 0
    ELSE (IF IsDigit(t[i]) THEN DigitVal(t[i]) * Pow10(DigitsAfter(t, i)) ELSE 0)
             + DigitsNumeral(t, i + 1)

\* What the claim asks of the value returned for the text t: missing when the
\* digits and points of t do not make a numeral; otherwise the non-negative
\* number whose digits are those of t, the point where the point of t is.
IsCurrencyValueOf(v, t) ==
    LET points == {i \in 1..Len(t) : t[i] = Dot}
        digits == {i \in 1..Len(t) : IsDigit(t[i])}
    IN IF digits = {} \/ Cardinality(points) > 1 THEN v = NaN
       ELSE LET decimals == IF points = {} THEN 0
                            ELSE DigitsAfter(t, CHOOSE i \in points : TRUE)
            IN /\ ~v.nan
               /\ v.num >= 0
               /\ v.num * Pow10(decimals) = DigitsNumeral(t, 1) * Pow10(v.scale)

\* C6: currency_to_float gives, for every text, the number its digits and
\* point spell (the sign and every other character dropped), or the missing
\* marker when they spell none; "£1,234.56" gives 1234.56 and "-£12.34" gives
\* 12.34; a float64 column comes back unchanged.
C6_CurrencyToFloat ==
    currency_result.returned =>
        LET in == currency_series
            out == currency_result.series
        IN /\ in.dtype = "float64" => out = in
           /\ in.dtype = "object" =>
                /\ out.dtype = "float64"
                /\ Len(out.vals) = Len(in.vals)
                /\ \A i \in 1..Len(in.vals) :
                      /\ ~in.vals[i].na => IsCurrencyValueOf(out.vals[i], in.vals[i].text)
                      /\ in.vals[i] = Text(Pounds1234_56) => out.vals[i] = Float(123456, 2)
                      /\ in.vals[i] = Text(MinusPounds12_34) => out.vals[i] = Float(1234, 2)

\* C6 witness: a column with "-£12.34", an empty cell and "£1,234.56" converted.
C6_Witness ==
    /\ currency_result.returned
    /\ currency_series.vals = <<Text(MinusPounds12_34), Missing, Text(Pounds1234_56)>>
    /\ currency_result.series.vals = <<Float(1234, 2), NaN, Float(123456, 2)>>

-----------------------------------------------------------------------------
(* Properties of extract_account_name (SpecAccount) *)

\* The line without its terminator.
Content(row) ==
    IF row # <<>> /\ row[Len(row)] = Newline THEN SubSeq(row, 1, Len(row) - 1) ELSE row

CommasOf(t) == {i \in 1..Len(t) : t[i] = Comma}

Least(S) == CHOOSE i \in S : \A j \in S : i <= j
Greatest(S) == CHOOSE i \in S : \A j \in S : i >= j

\* The second comma-separated field of a text with at least one comma.
SecondField(t) ==
    LET first == Least(CommasOf(t))
        later == CommasOf(t) \ {first}
        stop == IF later = {} THEN Len(t) + 1 ELSE Least(later)
    IN SubSeq(t, first + 1, stop - 1)

\* A text without the quote characters around it.
Unquoted(t) ==
    LET kept == {i \in 1..Len(t) : t[i] # Quote}
    IN IF kept = {} THEN <<>> ELSE SubSeq(t, Least(kept), Greatest(kept))

\* C7: the account name is the second comma-separated field of line 1 without
\* the quotes around it, whatever follows the field (a third field or the line
\* terminator); a line 1 with fewer than two fields makes the extraction fail.
C7_AccountName ==
    account_name.returned =>
        LET line == Content(summary_row)
        IN IF CommasOf(line) = {} THEN account_name.raised = "IndexError"
           ELSE /\ account_name.raised = ""
                /\ account_name.value = Unquoted(SecondField(line))

-----------------------------------------------------------------------------
(* Properties of the record set (SpecExtract) *)

\* The non-blank lines of the file after its first four lines.
LinesLeft(file) ==
    IF Len(file.rest) < 4 THEN <<>>
    ELSE SelectSeq(SubSeq(file.rest, 4, Len(file.rest)), LAMBDA l : l.kind # "blank")

\* A file the script is written for: a summary line with the account name, the
\* column names on the first line left, transactions on the others.
WellFormed(file) ==
    /\ file.line1 \in {Summary3, Summary2}
    /\ LinesLeft(file) # <<>> => LinesLeft(file)[1] = Columns
    /\ \A i \in 2..Len(LinesLeft(file)) : LinesLeft(file)[i] = RowRent

\* C8 as stated: a file with four or fewer lines after the skipped ones gives
\* an empty record set and no error.
C8_AsClaimed ==
    (record_set.returned /\ WellFormed(source_file) /\ Len(LinesLeft(source_file)) <= 4) =>
        (record_set.raised = "" /\ record_set.rows = <<>>)

\* C8 amended: with only the column names left after the four skipped lines the
\* record set is empty and nothing is raised; with no line left the extraction
\* raises EmptyDataError; a record set that is built has one row for every
\* line left but the first.
C8_RowCount ==
    record_set.returned =>
        LET left == LinesLeft(source_file)
        IN /\ record_set.raised = "" => Len(record_set.rows) = Len(left) - 1
           /\ (WellFormed(source_file) /\ Len(left) = 1) =>
                 (record_set.raised = "" /\ record_set.rows = <<>>)
           /\ (WellFormed(source_file) /\ left = <<>>) =>
                 record_set.raised = "EmptyDataError"
           /\ (WellFormed(source_file) /\ Len(left) > 1) =>
                 (record_set.raised = "" /\ record_set.rows # <<>>)

\* C8 witness: a file with the column names and nothing after them, read.
C8_Witness ==
    /\ record_set.returned
    /\ WellFormed(source_file)
    /\ LinesLeft(source_file) = <<Columns>>
    /\ record_set.raised = "" /\ record_set.rows = <<>>

-----------------------------------------------------------------------------
(* Properties of a run of the script (Spec) *)

LastCall == runlog.calls[Len(runlog.calls)]

\* The rows the calls of process_csv_file of this run have appended.
RECURSIVE Appended(_)
Appended(calls) ==
    IF calls = <<>> THEN EmptyBag
    ELSE LET c == calls[Len(calls)]
         IN Appended(SubSeq(calls, 1, Len(calls) - 1))
                (+) (IF c.applied THEN SeqToBag(c.rows) ELSE EmptyBag)

EndsInCsv(name) ==
    Len(name) >= 4 /\ SubSeq(name, Len(name) - 3, Len(name)) = <<".", "c", "s", "v">>

\* The positions of the listing that hold .csv entries, up to position n.
CsvPositions(n) == {i \in 1..n : i <= Len(listing) /\ EndsInCsv(listing[i].name)}

FailedInFile == pc = "aborted" /\ idx <= Len(listing)

ExtractionErrors == {"IndexError", "EmptyDataError", "KeyError", "ValueError"}

\* C1 as stated: every run, finished or aborted, has invoked remove_duplicates
\* exactly once.
C1_AsClaimed == pc \in {"done", "aborted"} => runlog.dedups = 1

\* C1 amended: a run that has processed every .csv entry without error invokes
\* remove_duplicates exactly once, after the last entry; a run that aborts on
\* an error raised while processing a file never invokes it.
C1_DedupOnce ==
    /\ runlog.dedups <= 1
    /\ pc = "done" => runlog.dedups = 1
    /\ FailedInFile => runlog.dedups = 0
    /\ runlog.dedups = 1 =>
          /\ idx > Len(listing)
          /\ Len(runlog.calls) = Cardinality(CsvPositions(Len(listing)))
          /\ \A k \in DOMAIN runlog.calls : runlog.calls[k].raised = ""

\* C1 witness: a run aborted on its second file, remove_duplicates not invoked.
C1_Witness ==
    /\ FailedInFile /\ Len(runlog.calls) = 2
    /\ runlog.dedups = 0

\* C2: an error raised while processing file i is not caught: it is the last
\* thing the run does, no entry after i is processed, an error raised before
\* the load leaves no row of file i in the table, and the rows of the files
\* before i stay in the table.
C2_NoErrorCaught ==
    /\ \A k \in DOMAIN runlog.calls :
          runlog.calls[k].raised # "" =>
              /\ k = Len(runlog.calls)
              /\ FailedInFile /\ idx = runlog.calls[k].i
              /\ error = runlog.calls[k].raised
    /\ FailedInFile =>
          LET before == SubSeq(runlog.calls, 1, Len(runlog.calls) - 1)
          IN /\ runlog.calls # <<>>
             /\ {runlog.calls[k].i : k \in DOMAIN runlog.calls} = CsvPositions(idx)
             /\ \A k \in DOMAIN before :
                   /\ before[k].applied
                   /\ before[k].rows # <<>> => BagIn(before[k].rows[1], table)
             /\ \A r \in BagToSet(runlog.start (+) Appended(before)) :
                   CopiesIn(r, table) >= CopiesIn(r, runlog.start (+) Appended(before))
             /\ LastCall.raised \in ExtractionErrors =>
                   table = runlog.start (+) Appended(before)

\* C2 witness: the second file has an unparseable date; the rows of the first
\* are in the table and nothing else is.
C2_Witness ==
    /\ FailedInFile /\ error = "ValueError"
    /\ Len(runlog.calls) = 2
    /\ runlog.calls[1].rows # <<>>
    /\ table = runlog.start (+) SeqToBag(runlog.calls[1].rows)

\* C4: a load that succeeds appends: the row count grows by the number of rows
\* of the record set and every row keeps at least the copies it had.
C4_PureAppend ==
    [][(pc = "loop" /\ pc' = "loop" /\ Len(runlog'.calls) = Len(runlog.calls) + 1) =>
          LET rows == runlog'.calls[Len(runlog'.calls)].rows
          IN /\ rows = process_csv_file(listing[idx], clock).rows
             /\ BagCardinality(table') = BagCardinality(table) + Len(rows)
             /\ \A r \in BagToSet(table) : CopiesIn(r, table') >= CopiesIn(r, table)
             /\ \A i \in 1..Len(rows) : CopiesIn(rows[i], table') > CopiesIn(rows[i], table)]_vars

\* C4 witness: a load has just succeeded whose rows were in the table already.
C4_Witness ==
    /\ pc = "loop" /\ runlog.calls # <<>>
    /\ LastCall.raised = "" /\ LastCall.rows # <<>>
    /\ \A i \in 1..Len(LastCall.rows) : CopiesIn(LastCall.rows[i], table) >= 2
    /\ BagCardinality(table) =
          BagCardinality(runlog.start) + BagCardinality(Appended(runlog.calls))

\* C5: a run over a directory without any .csv entry extracts nothing, loads
\* nothing and invokes remove_duplicates exactly once before it ends.
C5_NoCsvFiles ==
    (run >= 1 /\ CsvPositions(Len(listing)) = {}) =>
        /\ runlog.calls = <<>>
        /\ BagToSet(table) = BagToSet(runlog.start)
        /\ pc \in {"done", "aborted"} => runlog.dedups = 1

\* C5 witness: a directory holding only a .txt file, the run finished.
C5_Witness ==
    /\ pc = "done" /\ listing = <<NotesTxt>>
    /\ runlog.calls = <<>> /\ runlog.dedups = 1

DaysOf(calls) == {calls[k].day : k \in DOMAIN calls}

\* The row as a run on the given day uploads it.
UploadedOn(row, day) == [row EXCEPT !.date_uploaded = day]

\* C10: a complete run after a complete run over the same files leaves the
\* table as it was when both ran on one date; when the second ran on another
\* date the table holds every row of the first date once more, under the
\* second date.
C10_IdempotentPerDate ==
    (run >= 2 /\ pc = "done" /\ prevrun.ended = "done") =>
        LET days == DaysOf(runlog.calls)
        IN /\ Cardinality(prevrun.days \cup days) <= 1 => table = prevrun.table
           /\ \A d1 \in prevrun.days, d2 \in days :
                 (prevrun.days = {d1} /\ days = {d2} /\ d1 # d2) =>
                    \A r \in BagToSet(prevrun.table) :
                        /\ CopiesIn(r, table) = 1
                        /\ r.date_uploaded = d1 =>
                              /\ UploadedOn(r, d2) # r
                              /\ CopiesIn(UploadedOn(r, d2), table) = 1

\* C10 witness: the second run ran on the day after the first and the table
\* has twice the rows.
C10_Witness ==
    /\ run = 2 /\ pc = "done" /\ prevrun.ended = "done"
    /\ prevrun.days = {1} /\ DaysOf(runlog.calls) = {2}
    /\ prevrun.table # EmptyBag
    /\ BagCardinality(table) = 2 * BagCardinality(prevrun.table)

-----------------------------------------------------------------------------
(* Properties of remove_duplicates (SpecTable) *)

\* C3: a call of remove_duplicates that follows another with no write to the
\* table since the rewrite of the first finds the row count unchanged and
\* reports zero rows removed.
C3_Idempotent ==
    (pc = "done" /\ dedup.calls >= 2 /\ ~dedup.rewroteDirty /\ ~dedup.dirty) =>
        /\ duplicates_removed = 0
        /\ final_count = initial_count
        /\ final_count = dedup.lastFinal
        /\ BagCardinality(table) = final_count

\* C3 witness: the first call removed duplicates, the second has reported zero.
C3_Witness ==
    /\ pc = "done" /\ dedup.calls = 2 /\ ~dedup.rewroteDirty /\ ~dedup.dirty
    /\ BagCardinality(runlog.start) > final_count
    /\ final_count > 0 /\ duplicates_removed = 0

\* C9: the number reported is the number of rows the rewrite removed less the
\* rows other runs appended between the two counts: with no such write it is
\* the number removed, is not negative, and the table holds the distinct rows
\* it held at the call; with such a write it is another number.
C9_Reported ==
    pc = "done" =>
        /\ duplicates_removed = dedup.removed - dedup.absorbed
        /\ dedup.absorbed = 0 =>
              /\ duplicates_removed = dedup.removed
              /\ duplicates_removed >= 0
        /\ dedup.absorbed > 0 => duplicates_removed # dedup.removed
        /\ (dedup.absorbed = 0 /\ ~dedup.dirty) =>
              /\ table = SetToBag(BagToSet(dedup.atCall))
              /\ duplicates_removed = BagCardinality(dedup.atCall)
                                        - Cardinality(BagToSet(dedup.atCall))

\* C9 witness: another run appended rows between the counts and the number
\* reported is negative, though the rewrite removed rows.
C9_Witness ==
    /\ pc = "done" /\ dedup.absorbed > 0
    /\ dedup.removed > 0
    /\ duplicates_removed < 0

====
